---- MODULE Spec2Model ----
(***************************************************************************)
(* A model of the batch annotation scripts ED_v2.py (inconsistency index), *)
(* ES_v1.py (structured summary), EC_v5.py (emotion classification) and    *)
(* QA_v3.py (short answers).  Texts are Python str values, modelled as     *)
(* TLA+ strings and handled character by character; Python values (the     *)
(* results of json.loads, dict.get, int(...)) are tagged records.          *)
(* The Chinese literals of the sources are spelled in ASCII (pinyin)       *)
(* because a TLA+ string holds ASCII only, and the backquote, which a      *)
(* TLA+ string cannot hold either, is written ~ .                          *)
(***************************************************************************)
EXTENDS Integers, Sequences, FiniteSets, TLC

(***************************************************************************)
(* Python str                                                              *)
(***************************************************************************)
\* s[i-1], and "" when i is out of range
Char(s, i) == IF i >= 1 /\ i <= Len(s) THEN SubSeq(s, i, i) ELSE ""

\* str.isspace() of one character, as str.strip() and the regex \s see it
Whitespace == {" ", "\n", "\t", "\r"}

DigitChars == {"0", "1", "2", "3", "4", "5", "6", "7", "8", "9"}

UpperToLower ==
    ("A" :> "a") @@ ("B" :> "b") @@ ("C" :> "c") @@ ("D" :> "d") @@ ("E" :> "e") @@
    ("F" :> "f") @@ ("G" :> "g") @@ ("H" :> "h") @@ ("I" :> "i") @@ ("J" :> "j") @@
    ("K" :> "k") @@ ("L" :> "l") @@ ("M" :> "m") @@ ("N" :> "n") @@ ("O" :> "o") @@
    ("P" :> "p") @@ ("Q" :> "q") @@ ("R" :> "r") @@ ("S" :> "s") @@ ("T" :> "t") @@
    ("U" :> "u") @@ ("V" :> "v") @@ ("W" :> "w") @@ ("X" :> "x") @@ ("Y" :> "y") @@
    ("Z" :> "z")

LowerChar(c) == IF c \in DOMAIN UpperToLower THEN UpperToLower[c] ELSE c

\* s[a-1:b] in lower case
RECURSIVE LowerRange(_, _, _)
LowerRange(s, a, b) ==
    IF a > b THEN ""
    ELSE IF a = b THEN LowerChar(Char(s, a))
    ELSE LowerRange(s, a, (a + b) \div 2) \o LowerRange(s, ((a + b) \div 2) + 1, b)

\* str.lower()
Lower(s) == LowerRange(s, 1, Len(s))

\* the first index in a..b of s that holds a character of chars, 0 when none
RECURSIVE FirstIn(_, _, _, _)
FirstIn(s, a, b, chars) ==
    IF a > b THEN 0
    ELSE IF a = b THEN (IF Char(s, a) \in chars THEN a ELSE 0)
    ELSE LET left == FirstIn(s, a, (a + b) \div 2, chars)
         IN  IF left > 0 THEN left ELSE FirstIn(s, ((a + b) \div 2) + 1, b, chars)

\* the first index >= i of s that holds a character of chars (Len(s) + 1 when none)
FindChar(s, i, chars) ==
    LET f == FirstIn(s, i, Len(s), chars)
    IN  IF f > 0 THEN f ELSE IF i > Len(s) THEN i ELSE Len(s) + 1

\* the characters \w of a regex matches (ASCII letters, digits, underscore)
WordChars ==
    DigitChars \cup DOMAIN UpperToLower \cup {UpperToLower[c] : c \in DOMAIN UpperToLower}
    \cup {"_"}

\* s[i:] starts with p
StartsAt(s, i, p) == i >= 1 /\ i + Len(p) - 1 <= Len(s) /\ SubSeq(s, i, i + Len(p) - 1) = p

\* the positions at which p occurs in s
Occurrences(s, p) == {i \in 1..(Len(s) - Len(p) + 1) : StartsAt(s, i, p)}

\* Python's  p in s
Contains(s, p) == p = "" \/ Occurrences(s, p) # {}

Min(S) == CHOOSE x \in S : \A y \in S : x <= y

Max(S) == CHOOSE x \in S : \A y \in S : x >= y

\* the first index >= i of s that holds no whitespace (Len(s) + 1 when none)
RECURSIVE SkipWs(_, _)
SkipWs(s, i) ==
    IF i <= Len(s) /\ Char(s, i) \in Whitespace THEN SkipWs(s, i + 1) ELSE i

\* the first index >= i of s that holds no digit
RECURSIVE SkipDigits(_, _)
SkipDigits(s, i) ==
    IF i <= Len(s) /\ Char(s, i) \in DigitChars THEN SkipDigits(s, i + 1) ELSE i

\* the last index <= j of s that holds no whitespace (0 when none)
RECURSIVE SkipWsBack(_, _)
SkipWsBack(s, j) ==
    IF j >= 1 /\ Char(s, j) \in Whitespace THEN SkipWsBack(s, j - 1) ELSE j

\* str.strip()
Strip(s) ==
    LET a == SkipWs(s, 1)
        b == SkipWsBack(s, Len(s))
    IN  IF a > b THEN "" ELSE SubSeq(s, a, b)

DigitValue ==
    ("0" :> 0) @@ ("1" :> 1) @@ ("2" :> 2) @@ ("3" :> 3) @@ ("4" :> 4) @@
    ("5" :> 5) @@ ("6" :> 6) @@ ("7" :> 7) @@ ("8" :> 8) @@ ("9" :> 9)

\* int(d) of a string of decimal digits
RECURSIVE DigitsToNat(_, _)
DigitsToNat(d, n) ==
    IF n = 0 THEN 0 ELSE 10 * DigitsToNat(d, n - 1) + DigitValue[Char(d, n)]

StrToNat(d) == DigitsToNat(d, Len(d))

DigitOf == <<"0", "1", "2", "3", "4", "5", "6", "7", "8", "9">>

\* str(n) for n >= 0
RECURSIVE NatToStr(_)
NatToStr(n) ==
    IF n < 10 THEN DigitOf[n + 1] ELSE NatToStr(n \div 10) \o DigitOf[(n % 10) + 1]

IntToStr(n) == IF n < 0 THEN "-" \o NatToStr(0 - n) ELSE NatToStr(n)

(***************************************************************************)
(* Python values: int, str, None, bool, list, dict                         *)
(***************************************************************************)
PyInt(n) == [k |-> "int", v |-> n]

PyStr(s) == [k |-> "str", v |-> s]

PyNone == [k |-> "none", v |-> "None"]

PyBool(b) == [k |-> "bool", v |-> b]

\* a list of values
PyList(items) == [k |-> "list", v |-> items]

\* a dict, as the sequence of its <<key, value>> pairs in insertion order
PyDict(pairs) == [k |-> "dict", v |-> pairs]

\* bool(x)
Truthy(x) ==
    CASE x.k = "int" -> x.v # 0
      [] x.k = "str" -> x.v # ""
      [] x.k = "none" -> FALSE
      [] x.k = "bool" -> x.v
      [] x.k = "float" -> TRUE
      [] OTHER -> Len(x.v) > 0

HasKey(d, key) == \E i \in 1..Len(d.v) : d.v[i][1] = key

\* dict.get(key, default); a key given twice in a JSON text keeps its last value
DictGet(d, key, default) ==
    IF HasKey(d, key)
    THEN d.v[Max({i \in 1..Len(d.v) : d.v[i][1] = key})][2]
    ELSE default

\* x == y for the values compared in the sources (str against str, None, int)
PyEq(x, y) == x.k = y.k /\ x.k \in {"int", "str", "none", "bool"} /\ x.v = y.v

PyFloat(lit) == [k |-> "float", v |-> lit]

(***************************************************************************)
(* json.loads and json.dumps, for the JSON the model's texts can hold:     *)
(* objects, arrays, strings with the escapes \" \\ \/ \n \t \r, integers,  *)
(* decimals without exponent, null, true and false.                        *)
(***************************************************************************)
ParseFail == [ok |-> FALSE, val |-> PyNone, next |-> 0]

ParseOk(val, next) == [ok |-> TRUE, val |-> val, next |-> next]

StringEscapes ==
    ("\"" :> "\"") @@ ("\\" :> "\\") @@ ("/" :> "/") @@
    ("n" :> "\n") @@ ("t" :> "\t") @@ ("r" :> "\r")

\* the number of backslashes that end at index q - 1 of s, counted back to start
RECURSIVE BackslashRun(_, _, _)
BackslashRun(s, q, start) ==
    IF q > start /\ Char(s, q - 1) = "\\" THEN 1 + BackslashRun(s, q - 1, start) ELSE 0

\* the index of the quote that closes the string whose content starts at start: the
\* first quote with an even number of backslashes before it (0 when none)
RECURSIVE StringEnd(_, _, _)
StringEnd(s, start, from) ==
    LET q == FirstIn(s, from, Len(s), {"\""})
    IN  IF q = 0 THEN 0
        ELSE IF BackslashRun(s, q, start) % 2 = 0 THEN q
        ELSE StringEnd(s, start, q + 1)

\* the content c of a string from index i on, its escapes decoded; ok is FALSE at
\* an escape json does not know
RECURSIVE Unescape(_, _)
Unescape(c, i) ==
    LET b == FirstIn(c, i, Len(c), {"\\"})
    IN  IF b = 0 THEN [ok |-> TRUE, text |-> SubSeq(c, i, Len(c))]
        ELSE IF Char(c, b + 1) \notin DOMAIN StringEscapes THEN [ok |-> FALSE, text |-> ""]
        ELSE LET rest == Unescape(c, b + 2)
             IN  [ok |-> rest.ok,
                  text |-> SubSeq(c, i, b - 1) \o StringEscapes[Char(c, b + 1)] \o rest.text]

\* the string whose opening quote is at j - 1; a raw control character is an error
ScanString(s, j) ==
    LET q == StringEnd(s, j, j)
        u == Unescape(SubSeq(s, j, q - 1), 1)
    IN  IF q = 0 \/ FirstIn(s, j, q - 1, {"\n", "\t", "\r"}) > 0 \/ ~u.ok THEN ParseFail
        ELSE ParseOk(PyStr(u.text), q + 1)

\* -?(0|[1-9]\d*)(\.\d+)?
ScanNumber(s, i) ==
    LET neg == Char(s, i) = "-"
        d == IF neg THEN i + 1 ELSE i
        e == IF Char(s, d) = "0" THEN d + 1 ELSE SkipDigits(s, d)
        f == IF Char(s, e) = "." /\ Char(s, e + 1) \in DigitChars
             THEN SkipDigits(s, e + 1) ELSE e
    IN  IF e = d THEN ParseFail
        ELSE IF f > e THEN ParseOk(PyFloat(SubSeq(s, i, f - 1)), f)
        ELSE ParseOk(PyInt(IF neg THEN 0 - StrToNat(SubSeq(s, d, e - 1))
                                  ELSE StrToNat(SubSeq(s, d, e - 1))), e)

RECURSIVE ParseValue(_, _)
RECURSIVE ParseMembers(_, _, _)
RECURSIVE ParseElements(_, _, _)

\* after the member key: pv: the closing brace ends the object, a comma goes on at
\* the next key
MemberValue(s, key, pv, acc) ==
    IF ~pv.ok THEN ParseFail
    ELSE CASE Char(s, SkipWs(s, pv.next)) = "}" ->
                ParseOk(PyDict(Append(acc, <<key, pv.val>>)), SkipWs(s, pv.next) + 1)
           [] Char(s, SkipWs(s, pv.next)) = "," ->
                ParseMembers(s, SkipWs(s, SkipWs(s, pv.next) + 1),
                             Append(acc, <<key, pv.val>>))
           [] OTHER -> ParseFail

\* after the key of a member: a colon and the member's value
MemberKey(s, key, acc) ==
    IF ~key.ok \/ Char(s, SkipWs(s, key.next)) # ":" THEN ParseFail
    ELSE MemberValue(s, key.val.v, ParseValue(s, SkipWs(s, SkipWs(s, key.next) + 1)), acc)

\* the members of an object, from the key expected at i, up to its closing brace
ParseMembers(s, i, acc) ==
    IF Char(s, i) # "\"" THEN ParseFail ELSE MemberKey(s, ScanString(s, i + 1), acc)

\* after the element pv: the closing bracket ends the array, a comma goes on at the
\* next element
ElementValue(s, pv, acc) ==
    IF ~pv.ok THEN ParseFail
    ELSE CASE Char(s, SkipWs(s, pv.next)) = "]" ->
                ParseOk(PyList(Append(acc, pv.val)), SkipWs(s, pv.next) + 1)
           [] Char(s, SkipWs(s, pv.next)) = "," ->
                ParseElements(s, SkipWs(s, SkipWs(s, pv.next) + 1), Append(acc, pv.val))
           [] OTHER -> ParseFail

\* the elements of an array, from the value expected at i, up to its closing bracket
ParseElements(s, i, acc) == ElementValue(s, ParseValue(s, i), acc)

ParseValue(s, i) ==
    CASE Char(s, i) = "\"" -> ScanString(s, i + 1)
      [] Char(s, i) = "{" ->
            IF Char(s, SkipWs(s, i + 1)) = "}"
            THEN ParseOk(PyDict(<<>>), SkipWs(s, i + 1) + 1)
            ELSE ParseMembers(s, SkipWs(s, i + 1), <<>>)
      [] Char(s, i) = "[" ->
            IF Char(s, SkipWs(s, i + 1)) = "]"
            THEN ParseOk(PyList(<<>>), SkipWs(s, i + 1) + 1)
            ELSE ParseElements(s, SkipWs(s, i + 1), <<>>)
      [] StartsAt(s, i, "null") -> ParseOk(PyNone, i + 4)
      [] StartsAt(s, i, "true") -> ParseOk(PyBool(TRUE), i + 4)
      [] StartsAt(s, i, "false") -> ParseOk(PyBool(FALSE), i + 5)
      [] Char(s, i) = "-" \/ Char(s, i) \in DigitChars -> ScanNumber(s, i)
      [] OTHER -> ParseFail

\* json.loads(s): ok is FALSE where Python raises json.JSONDecodeError
JsonLoads(s) ==
    LET pv == ParseValue(s, SkipWs(s, 1))
    IN  IF pv.ok /\ SkipWs(s, pv.next) > Len(s)
        THEN [ok |-> TRUE, val |-> pv.val]
        ELSE [ok |-> FALSE, val |-> PyNone]

DumpEscapes ==
    ("\"" :> "\\\"") @@ ("\\" :> "\\\\") @@ ("\n" :> "\\n") @@ ("\t" :> "\\t") @@
    ("\r" :> "\\r")

\* s from index i on, with the characters json.dumps escapes escaped
RECURSIVE EscapeFrom(_, _)
EscapeFrom(s, i) ==
    LET b == FirstIn(s, i, Len(s), DOMAIN DumpEscapes)
    IN  IF b = 0 THEN SubSeq(s, i, Len(s))
        ELSE SubSeq(s, i, b - 1) \o DumpEscapes[Char(s, b)] \o EscapeFrom(s, b + 1)

RECURSIVE Dumps(_)
RECURSIVE DumpsItems(_, _)
RECURSIVE DumpsPairs(_, _)

DumpsItems(items, i) ==
    IF i > Len(items) THEN ""
    ELSE (IF i > 1 THEN ", " ELSE "") \o Dumps(items[i]) \o DumpsItems(items, i + 1)

DumpsPairs(pairs, i) ==
    IF i > Len(pairs) THEN ""
    ELSE (IF i > 1 THEN ", " ELSE "") \o "\"" \o EscapeFrom(pairs[i][1], 1) \o "\": "
         \o Dumps(pairs[i][2]) \o DumpsPairs(pairs, i + 1)

\* json.dumps(x, ensure_ascii=False)
Dumps(x) ==
    CASE x.k = "int" -> IntToStr(x.v)
      [] x.k = "float" -> x.v
      [] x.k = "str" -> "\"" \o EscapeFrom(x.v, 1) \o "\""
      [] x.k = "none" -> "null"
      [] x.k = "bool" -> IF x.v THEN "true" ELSE "false"
      [] x.k = "list" -> "[" \o DumpsItems(x.v, 1) \o "]"
      [] OTHER -> "{" \o DumpsPairs(x.v, 1) \o "}"

(***************************************************************************)
(* What a call does: it returns a value or raises an exception             *)
(***************************************************************************)
Returned(val) == [exc |-> "", val |-> val]

Raised(e) == [exc |-> e, val |-> PyNone]

(***************************************************************************)
(* Regular expressions of the sources, matched as re.search matches them   *)
(***************************************************************************)
NoMatch == [found |-> FALSE, group |-> ""]

Match(g) == [found |-> TRUE, group |-> g]

\* the code fence of the sources, three backquotes, each written ~
Fence == "~~~"

\* the smallest index of a set of indices, 0 when it is empty
FirstOf(hits) == IF hits = {} THEN 0 ELSE Min(hits)

\* re.search(r'```json\s*(.*?)\s*```', text, re.DOTALL): the block opens at the first
\* fence followed by json that has a fence somewhere after it, and group(1) runs from
\* the first non-blank character to the last one before the nearest fence
FencedJson(text) ==
    LET opens == {i \in Occurrences(text, Fence \o "json") :
                    \E q \in Occurrences(text, Fence) : q >= i + 7}
    IN  IF opens = {} THEN NoMatch
        ELSE LET a == SkipWs(text, Min(opens) + 7)
                 q == Min({x \in Occurrences(text, Fence) : x >= a})
                 e == SkipWsBack(text, q - 1)
             IN  Match(IF e < a THEN "" ELSE SubSeq(text, a, e))

\* the run of digits that starts at d, as a match; no match when d is 0
DigitsAt(text, d) ==
    IF d = 0 THEN NoMatch ELSE Match(SubSeq(text, d, SkipDigits(text, d) - 1))

\* where the digits are expected after a key of length n matched at i: past
\* blanks, the separator and blanks
AfterSeparator(text, i, n) == SkipWs(text, SkipWs(text, i + n) + 1)

LabelledNumberAt(text, n, hit) ==
    DigitsAt(text, IF hit = 0 THEN 0 ELSE AfterSeparator(text, hit, n))

\* re.search(key + r'\s*' + sep + r'\s*(\d+)', text, re.IGNORECASE)
LabelledNumber(text, key, sep) ==
    LabelledNumberAt(text, Len(key),
        FirstOf({i \in Occurrences(Lower(text), key) :
                    /\ Char(text, SkipWs(text, i + Len(key))) = sep
                    /\ Char(text, AfterSeparator(text, i, Len(key))) \in DigitChars}))

\* the first index >= i of text that holds a digit, 0 when a newline or the end of
\* the text comes first
DigitOnLine(text, i) ==
    LET f == FirstIn(text, i, Len(text), DigitChars \cup {"\n"})
    IN  IF f > 0 /\ Char(text, f) \in DigitChars THEN f ELSE 0

NumberAfterAt(text, n, hit) ==
    DigitsAt(text, IF hit = 0 THEN 0 ELSE DigitOnLine(text, hit + n))

\* re.search(key + r'.*?(\d+)', text, re.IGNORECASE)
NumberAfter(text, key) ==
    NumberAfterAt(text, Len(key),
        FirstOf({i \in Occurrences(Lower(text), key) :
                    DigitOnLine(text, i + Len(key)) > 0}))

\* re.findall(r'\b\d+\b', text): the runs of digits with no word character on
\* either side, as the positions they start at
BareNumbers(text) ==
    {i \in 1..Len(text) :
        /\ Char(text, i) \in DigitChars
        /\ Char(text, i - 1) \notin WordChars
        /\ Char(text, SkipDigits(text, i)) \notin WordChars}

(***************************************************************************)
(* ED_v2.py: the index extractor                                           *)
(***************************************************************************)
\* the phrase for "inconsistent" in Chinese (bu yi zhi), r'不一致.*?(\d+)'
BuYiZhi == "buyizhi"

\* the patterns list of _extract_index_manually, in its order
IndexPatternMatches(text) ==
    << LabelledNumber(text, "\"index\"", ":"),
       LabelledNumber(text, "index", ":"),
       NumberAfter(text, BuYiZhi),
       NumberAfter(text, "inconsistent"),
       LabelledNumber(text, "index", "=") >>

\* the first match of a list of matches, no match when none matched
FirstMatch(ms) ==
    IF \E n \in 1..Len(ms) : ms[n].found
    THEN ms[Min({n \in 1..Len(ms) : ms[n].found})]
    ELSE NoMatch

\* the first pattern that matched gives the index, else the first bare number,
\* else -1
ManualIndex(text, m, nums) ==
    IF m.found THEN PyInt(StrToNat(m.group))
    ELSE IF nums # {}
    THEN PyInt(StrToNat(SubSeq(text, Min(nums), SkipDigits(text, Min(nums)) - 1)))
    ELSE PyInt(-1)

_extract_index_manually(text) ==
    ManualIndex(text, FirstMatch(IndexPatternMatches(text)), BareNumbers(text))

\* data.get("index", -1) on what json.loads returned
GetIndex(data) ==
    IF data.k = "dict" THEN Returned(DictGet(data, "index", PyInt(-1)))
    ELSE Raised("AttributeError")

\* the text handed to json.loads: group(1) of the fenced block, else the whole text
JsonText(text, json_match) == IF json_match.found THEN json_match.group ELSE text

IndexOfLoaded(text, loaded) ==
    IF loaded.ok THEN GetIndex(loaded.val)
    ELSE Returned(_extract_index_manually(text))

extract_index_from_response(response_text) ==
    IF response_text = "" THEN Returned(PyInt(-1))
    ELSE IndexOfLoaded(response_text,
                       JsonLoads(JsonText(response_text, FencedJson(response_text))))

(***************************************************************************)
(* ES_v1.py: the summary extractor                                         *)
(***************************************************************************)
\* "未提取到相关信息", the marker of a field that was not extracted
NotExtracted == "wei tiqu dao xiangguan xinxi"

EmptyResponseError == "ERROR: Empty response"

SummaryFields ==
    << "predicted_cause", "predicted_symptoms", "predicted_treatment_process",
       "predicted_illness_Characteristics", "predicted_treatment_effect" >>

\* the loose pattern of each field: head, then any one character when dot, then
\* tail, then an optional s when plural (causes?, treatment.process, ...)
LooseKeys ==
    << [head |-> "cause", dot |-> FALSE, tail |-> "", plural |-> TRUE],
       [head |-> "symptom", dot |-> FALSE, tail |-> "", plural |-> TRUE],
       [head |-> "treatment", dot |-> TRUE, tail |-> "process", plural |-> FALSE],
       [head |-> "characteristics", dot |-> FALSE, tail |-> "", plural |-> FALSE],
       [head |-> "treatment", dot |-> TRUE, tail |-> "effect", plural |-> FALSE] >>

Quotes == {"\"", "'"}

\* the text from index g up to the next character of stops, as a match
UpTo(text, g, stops) == Match(SubSeq(text, g, FindChar(text, g, stops) - 1))

QuotedFieldAt(text, n, hit) ==
    IF hit = 0 THEN NoMatch ELSE UpTo(text, AfterSeparator(text, hit, n) + 1, {"\""})

\* re.search(r'"<field>"\s*:\s*"([^"]*)"', text, re.IGNORECASE | re.DOTALL)
QuotedField(text, field) ==
    QuotedFieldAt(text, Len(field) + 2,
        FirstOf({i \in Occurrences(Lower(text), Lower("\"" \o field \o "\"")) :
                    /\ Char(text, SkipWs(text, i + Len(field) + 2)) = ":"
                    /\ Char(text, AfterSeparator(text, i, Len(field) + 2)) = "\""
                    /\ FindChar(text, AfterSeparator(text, i, Len(field) + 2) + 1, {"\""})
                            <= Len(text)}))

\* the index after the loose key matched at i of the lower-cased text, 0 when it
\* does not match there
LooseKeyEnd(low, i, key) ==
    LET p == i + Len(key.head)
        q == IF key.dot THEN p + 1 + Len(key.tail) ELSE p
    IN  IF ~StartsAt(low, i, key.head) THEN 0
        ELSE IF key.dot /\ ~(p <= Len(low) /\ StartsAt(low, p + 1, key.tail)) THEN 0
        ELSE IF key.plural /\ Char(low, q) = "s" THEN q + 1
        ELSE q

\* the index the colon is expected at after the loose key matched at i: past the
\* key, an optional quote and blanks (0 when the key does not match at i)
LooseColon(text, low, i, key) ==
    LET e == LooseKeyEnd(low, i, key)
    IN  IF e = 0 THEN 0
        ELSE SkipWs(text, IF Char(text, e) \in Quotes THEN e + 1 ELSE e)

\* the value that starts at d, an optional opening quote aside
LooseValue(text, d) == UpTo(text, IF Char(text, d) \in Quotes THEN d + 1 ELSE d, Quotes)

LooseFieldAt(text, low, key, hit) ==
    IF hit = 0 THEN NoMatch
    ELSE LooseValue(text, SkipWs(text, LooseColon(text, low, hit, key) + 1))

LooseFieldIn(text, low, key) ==
    LooseFieldAt(text, low, key,
        FirstOf({i \in Occurrences(low, key.head) :
                    Char(text, LooseColon(text, low, i, key)) = ":"}))

\* value if value else "未提取到相关信息"
OrNotExtracted(value) == IF value = "" THEN NotExtracted ELSE value

\* the loose pattern of a field's list tried before the exact one
FieldValueLooseFirst(exact, loose) ==
    OrNotExtracted(IF loose.found THEN Strip(loose.group)
                   ELSE IF exact.found THEN Strip(exact.group)
                   ELSE "")

\* the first pattern of a field's list that matches decides its value
FieldValue(exact, loose) ==
    OrNotExtracted(IF exact.found THEN Strip(exact.group)
                   ELSE IF loose.found THEN Strip(loose.group)
                   ELSE "")

\* the value _extract_fields_manually gives field number n; its second pattern is
\* re.search(r'<key>["\']?\s*:\s*["\']?([^"\']*)', text, re.IGNORECASE | re.DOTALL)
ManualField(text, n) ==
    FieldValue(QuotedField(text, SummaryFields[n]),
               LooseFieldIn(text, Lower(text), LooseKeys[n]))

_extract_fields_manually(text) ==
    PyDict([n \in 1..Len(SummaryFields) |->
                <<SummaryFields[n], PyStr(ManualField(text, n))>>])

SummaryOfLoaded(text, loaded) ==
    IF loaded.ok THEN loaded.val ELSE _extract_fields_manually(text)

\* never raises: the value is whatever json.loads gave, a dict or not
extract_json_from_response(response_text) ==
    IF response_text = ""
    THEN PyDict([n \in 1..Len(SummaryFields) |->
                    <<SummaryFields[n], PyStr(EmptyResponseError)>>])
    ELSE SummaryOfLoaded(response_text,
                         JsonLoads(JsonText(response_text, FencedJson(response_text))))

\* the result dict of process_single_case: extracted_data.get(field, "") per field
SummaryResult(case_id, extracted_data) ==
    IF extracted_data.k = "dict"
    THEN Returned(PyDict(<< <<"id", case_id>> >> \o
            [n \in 1..Len(SummaryFields) |->
                <<SummaryFields[n], DictGet(extracted_data, SummaryFields[n], PyStr(""))>>]))
    ELSE Raised("AttributeError")

(***************************************************************************)
(* EC_v5.py: the emotion extractor                                         *)
(***************************************************************************)
DefaultEmotion == "Delight"

\* the first brace after the opening brace at i
NextBrace(text, i) == FindChar(text, i + 1, {"{", "}"})

EmotionJsonAt(text, hit) ==
    IF hit = 0 THEN NoMatch ELSE Match(SubSeq(text, hit, NextBrace(text, hit)))

\* re.search(r'\{[^{}]*"Emotion"[^{}]*\}', model_response): an opening brace, the
\* quoted key and a closing brace with no other brace between them
EmotionJson(text) ==
    EmotionJsonAt(text,
        FirstOf({i \in Occurrences(text, "{") :
                    /\ Char(text, NextBrace(text, i)) = "}"
                    /\ \E o \in Occurrences(text, "\"Emotion\"") :
                            o > i /\ o + 9 <= NextBrace(text, i)}))

\* data.get("Emotion") on the matched braces, None when they do not parse: a bare
\* except swallows the parse error
EmotionOfLoaded(loaded) ==
    IF loaded.ok THEN DictGet(loaded.val, "Emotion", PyNone) ELSE PyNone

extract_emotion_from_json(model_response) ==
    LET json_match == EmotionJson(model_response)
    IN  IF json_match.found THEN EmotionOfLoaded(JsonLoads(json_match.group)) ELSE PyNone

\* emotion_patterns, in the order the dict literal gives
emotion_patterns ==
    << [emotion |-> "Delight", patterns |-> <<"delight", "happy", "joy", "pleasure">>],
       [emotion |-> "Anger", patterns |-> <<"anger", "angry", "mad", "furious">>],
       [emotion |-> "Embarrassment",
        patterns |-> <<"embarrassment", "embarrassed", "ashamed", "shame">>],
       [emotion |-> "Hopeless",
        patterns |-> <<"hopeless", "despair", "desperate", "no hope">>],
       [emotion |-> "Pride", patterns |-> <<"pride", "proud", "accomplish", "achievement">>],
       [emotion |-> "Disappointment",
        patterns |-> <<"disappointment", "disappointed", "let down", "dissatisfied">>] >>

InChoices(x, choices) == \E c \in 1..Len(choices) : PyEq(x, PyStr(choices[c]))

\* the choices found in the lower-cased response, as indices of choices
SubstringHits(response_lower, choices) ==
    {c \in 1..Len(choices) : Contains(response_lower, Lower(choices[c]))}

\* the rows of emotion_patterns whose emotion is a choice and one of whose
\* patterns is found in the lower-cased response
PatternHits(response_lower, choices) ==
    {e \in 1..Len(emotion_patterns) :
        /\ InChoices(PyStr(emotion_patterns[e].emotion), choices)
        /\ \E n \in 1..Len(emotion_patterns[e].patterns) :
                Contains(response_lower, emotion_patterns[e].patterns[n])}

\* the default tier with the first choice forgotten
FirstChoiceForgotten(choices) == DefaultEmotion

\* return choices[0] if choices else "Delight"
FirstChoice(choices) == IF Len(choices) > 0 THEN choices[1] ELSE DefaultEmotion

\* the text tiers taking the last match instead of the first
EmotionByTextLast(direct, byPattern, choices) ==
    IF direct # {} THEN PyStr(choices[Max(direct)])
    ELSE IF byPattern # {} THEN PyStr(emotion_patterns[Max(byPattern)].emotion)
    ELSE PyStr(FirstChoice(choices))

\* the tiers after the JSON one: a choice named in the response, then a synonym of
\* a choice, then the default
EmotionByText(direct, byPattern, choices) ==
    IF direct # {} THEN PyStr(choices[Min(direct)])
    ELSE IF byPattern # {} THEN PyStr(emotion_patterns[Min(byPattern)].emotion)
    ELSE PyStr(FirstChoice(choices))

EmotionByTier(emotion_from_json, response_lower, choices) ==
    IF Truthy(emotion_from_json) /\ InChoices(emotion_from_json, choices)
    THEN emotion_from_json
    ELSE EmotionByText(SubstringHits(response_lower, choices),
                       PatternHits(response_lower, choices), choices)

extract_emotion(model_response, choices) ==
    EmotionByTier(extract_emotion_from_json(model_response), Lower(model_response), choices)

(***************************************************************************)
(* QA_v3.py: the yes/no classifier and the answer cleaner                  *)
(***************************************************************************)
\* the words of yes_no_patterns, each r'^word\s+'
yes_no_patterns ==
    << "is", "are", "does", "do", "did", "was", "were", "has", "have", "had", "can",
       "could", "will", "would", "should", "must", "may", "might" >>

yes_no_phrases == <<" yes or no", " true or false", " correct or incorrect">>

is_yes_no_question(question) ==
    LET question_lower == Lower(Strip(question))
    IN  \/ \E n \in 1..Len(yes_no_patterns) :
                /\ StartsAt(question_lower, 1, yes_no_patterns[n])
                /\ Char(question_lower, Len(yes_no_patterns[n]) + 1) \in Whitespace
        \/ \E n \in 1..Len(yes_no_phrases) : Contains(question_lower, yes_no_phrases[n])

\* s[:n]
Prefix(s, n) == SubSeq(s, 1, IF n < Len(s) THEN n ELSE Len(s))

YesNoLimit == 50

OpenLimit == 200

clean_response(response, is_yes_no) ==
    LET stripped == Strip(response)
        response_lower == Lower(stripped)
        first_word == Lower(SubSeq(stripped, 1, FindChar(stripped, 1, Whitespace) - 1))
    IN  IF ~is_yes_no THEN Prefix(stripped, OpenLimit)
        ELSE IF response_lower = "yes" THEN "yes"
        ELSE IF response_lower = "no" THEN "no"
        ELSE IF first_word \in {"yes", "no"} THEN first_word
        ELSE Prefix(stripped, YesNoLimit)

(***************************************************************************)
(* The inputs of a run                                                     *)
(***************************************************************************)
\* the longest input file, in lines
MaxLines == 2

Variants == {"ED", "ES", "EC", "QA"}

\* the scripts that call the service through requests, with retries
UsesRequests(v) == v \in {"ED", "ES"}

\* the lines an input file is made of, as readlines gives them: well-formed records
\* with and without an id, a line that is not JSON, a blank line, a JSON value that
\* is no object
InputLines(v) ==
    CASE v = "ED" ->
            { "{\"id\": 7, \"text\": [{\"index\": 0, \"context\": \"a\"}, {\"index\": 1, \"context\": \"b\"}]}\n",
              "{\"text\": [{\"index\": 0, \"context\": \"a\"}]}\n",
              "{\"text\": [\n", "\n", "[1]\n" }
      [] v = "ES" ->
            { "{\"id\": 7, \"case_description\": [\"d\"]}\n",
              "{\"case_description\": \"d\"}\n",
              "{\"id\": 7,\n", "  \n", "3\n" }
      [] v = "EC" ->
            { "{\"id\": 7, \"Subject\": \"J\", \"choices\": [\"Anger\", \"Delight\"]}\n",
              "{\"Subject\": \"M\", \"choices\": [\"Pride\", \"Hopeless\"]}\n",
              "{\"id\": 8, \"choices\": []}\n",
              "{\"id\": 9, \"choices\": null}\n",
              "{\"id\": 7\n", "\n", "[1]\n" }
      [] OTHER ->
            { "{\"id\": 7, \"problem\": \"Is the patient improving?\"}\n",
              "{\"problem\": \"What helps?\"}\n",
              "{\"id\": 8, \"problem\": 5}\n",
              "{\"id\": 7\n", "\n", "[1]\n" }

\* the input files: every sequence of at most MaxLines of these lines
Files(v) == UNION {[1..n -> InputLines(v)] : n \in 0..MaxLines}

\* max_lines / max_examples: None, or a number of records
Caps == <<PyNone>> \o [n \in 1..(MaxLines + 1) |-> PyInt(n - 1)]

\* the texts the model answers with
Responses(v) ==
    CASE v = "ED" ->
            << "~~~json\n{\"index\": 1}\n~~~", "{\"index\": 0}", "The inconsistent text is 7",
               "no idea", "2", "{\"index\": \"two\"}", " " >>
      [] v = "ES" ->
            << "{\"predicted_cause\": \"stress\", \"predicted_symptoms\": null}",
               "Cause: stress\nSymptoms: insomnia", "no fields", "[1]", "" >>
      [] v = "EC" ->
            << "{\"Emotion\": \"Anger\"}", "I think the answer is anger here", "so proud",
               "nothing", "{\"Emotion\": \"Joy\"}", "" >>
      [] OTHER ->
            << "Yes, clearly.", "yes", " No\n", "It helps sleep.", "" >>

\* what response.json() gives for a body that is JSON: the envelope of a generated
\* text, and the envelopes a service can send instead (no response key, a response
\* that is no string, a body that is no object)
Envelopes(v) ==
    [n \in 1..Len(Responses(v)) |-> PyDict(<< <<"response", PyStr(Responses(v)[n])>> >>)]
    \o << PyDict(<< <<"error", PyStr("model not found")>> >>),
          PyDict(<< <<"response", PyNone>> >>),
          PyList(<<>>) >>

\* how one requests.post round ends: RequestException (no connection, a timeout,
\* raise_for_status on an error status), JSONDecodeError (response.json() on a body
\* that is not JSON), or a decoded body
PostKinds == {"RequestException", "JSONDecodeError", "json"}

(***************************************************************************)
(* The state                                                               *)
(***************************************************************************)
VARIABLES
    variant,            \* the script that runs
    infile,             \* the lines of the input file
    max_lines,          \* max_lines (ED, ES) or max_examples (EC, QA)
    pc,                 \* where process_jsonl_file stands
    lines,              \* EC, QA: the local list lines, after the cap
    i,                  \* the zero-based index of the line the loop is at
    case_data,          \* the record parsed from that line
    attempt,            \* generate_response: the loop variable
    posts,              \* generate_response: how each request of this prompt ended
    backoffs,           \* generate_response: after which requests it slept
    response,           \* what the last model call gave its caller
    opened,             \* whether the output file was opened for writing
    outfile,            \* the lines of the output file
    results,            \* EC, QA: self.results
    processed_count,    \* ED, ES
    error_count,        \* ED, ES
    delays,             \* the line indices after which the inter-call delay was slept
    rerun,              \* EC, QA: whether process_jsonl_file ran before on this instance
    fn,                 \* the extractor applied to arg_text, "" before
    arg_text,           \* a raw model text
    arg_choices,        \* a list of choices
    ret                 \* what the extractor gave

vars ==
    << variant, infile, max_lines, pc, lines, i, case_data, attempt, posts, backoffs,
       response, opened, outfile, results, processed_count, error_count, delays, rerun,
       fn, arg_text, arg_choices, ret >>

runVars ==
    << variant, infile, max_lines, pc, lines, i, case_data, attempt, posts, backoffs,
       response, opened, outfile, results, processed_count, error_count, delays, rerun >>

extractVars == <<fn, arg_text, arg_choices, ret>>

\* no model call made yet
NoCall == [exc |-> "none", val |-> PyNone]

Init ==
    /\ variant \in Variants
    /\ infile \in Files(variant)
    /\ \E c \in 1..Len(Caps) : max_lines = Caps[c]
    /\ pc = "start"
    /\ lines = <<>>
    /\ i = 0
    /\ case_data = PyNone
    /\ attempt = 0
    /\ posts = <<>>
    /\ backoffs = <<>>
    /\ response = NoCall
    /\ opened = FALSE
    /\ outfile = <<>>
    /\ results = <<>>
    /\ processed_count = 0
    /\ error_count = 0
    /\ delays = <<>>
    /\ rerun = FALSE
    /\ fn = ""
    /\ arg_text = ""
    /\ arg_choices = <<>>
    /\ ret = NoCall

(***************************************************************************)
(* ED_v2.py and ES_v1.py: the run                                          *)
(***************************************************************************)
\* generate_response(prompt, max_retries=3), as process_single_case calls it
max_retries == 3

AllOf(items, kind) == \A n \in 1..Len(items) : items[n].k = kind

\* the exception build_prompt raises on a record, "" when it returns; ES reads
\* case_data.get("id", "unknown") first
PromptError(v, record) ==
    LET texts == DictGet(record, "text", PyList(<<>>))
        description == DictGet(record, "case_description", PyList(<<>>))
        process == DictGet(record, "consultation_process", PyList(<<>>))
    IN  CASE record.k # "dict" -> "AttributeError"
          [] v = "ED" /\ texts.k \in {"int", "none", "bool", "float"} -> "TypeError"
          [] v = "ED" /\ texts.k = "list" /\ ~AllOf(texts.v, "dict") -> "AttributeError"
          [] v = "ED" /\ texts.k \in {"str", "dict"} /\ Len(texts.v) > 0 -> "AttributeError"
          [] v = "ES" /\ description.k = "list" /\ ~AllOf(description.v, "str") -> "TypeError"
          [] v = "ES" /\ process.k = "list" /\ ~AllOf(process.v, "str") -> "TypeError"
          [] OTHER -> ""

\* result.get("response", "").strip() on a decoded body
EnvelopeText(result) ==
    LET text == DictGet(result, "response", PyStr(""))
    IN  IF result.k = "dict" /\ text.k = "str" THEN Returned(PyStr(Strip(text.v)))
        ELSE Raised("AttributeError")

\* the result dict of process_single_case for the text the model call returned
IndexResult(case_id, predicted_index) ==
    IF predicted_index.exc # "" THEN predicted_index
    ELSE Returned(PyDict(<< <<"id", PyInt(case_id)>>,
                            <<"predicted_index", predicted_index.val>> >>))

CaseResult(v, record, case_id, text) ==
    IF v = "ED"
    THEN IndexResult(case_id, extract_index_from_response(text))
    ELSE SummaryResult(DictGet(record, "id", PyStr("unknown")),
                       extract_json_from_response(text))

\* the connection check made after the files are opened
StartOpensFirst ==
    /\ pc = "start"
    /\ UsesRequests(variant)
    /\ opened' = TRUE
    /\ outfile' = <<>>
    /\ \E reachable \in BOOLEAN : pc' = IF reachable THEN "loop" ELSE "done"
    /\ UNCHANGED << variant, rerun, infile, max_lines, lines, i, case_data, attempt, posts,
                    backoffs, response, results, processed_count, error_count, delays >>
    /\ UNCHANGED extractVars

\* the connection check, then the two files are opened; a failed check ends the run
Start ==
    /\ pc = "start"
    /\ UsesRequests(variant)
    /\ \E reachable \in BOOLEAN :
        IF reachable
        THEN /\ pc' = "loop"
             /\ opened' = TRUE
             /\ outfile' = <<>>
        ELSE /\ pc' = "done"
             /\ UNCHANGED <<opened, outfile>>
    /\ UNCHANGED << variant, rerun, infile, max_lines, lines, i, case_data, attempt, posts,
                    backoffs, response, results, processed_count, error_count, delays >>
    /\ UNCHANGED extractVars

\* the loop ends: the file is exhausted, or line_num is past max_lines
LoopEnds ==
    \/ i >= Len(infile)
    \/ Truthy(max_lines) /\ i + 1 > max_lines.v

\* the loop body without its except Exception clause: what build_prompt raises
\* leaves the loop
LineReadUnguarded(line, loaded) ==
    IF line = ""
    THEN /\ i' = i + 1
         /\ UNCHANGED <<pc, case_data, error_count>>
    ELSE IF ~loaded.ok
    THEN /\ i' = i + 1
         /\ error_count' = error_count + 1
         /\ UNCHANGED <<pc, case_data>>
    ELSE IF PromptError(variant, loaded.val) # ""
    THEN /\ pc' = "raised"
         /\ UNCHANGED <<i, case_data, error_count>>
    ELSE /\ pc' = "call"
         /\ case_data' = loaded.val
         /\ UNCHANGED <<i, error_count>>

\* one line is read: a blank line is skipped, a line that does not parse or whose
\* prompt cannot be built counts as an error, any other line goes to the model
LineRead(line, loaded) ==
    IF line = ""
    THEN /\ i' = i + 1
         /\ UNCHANGED <<pc, case_data, error_count>>
    ELSE IF ~loaded.ok \/ PromptError(variant, loaded.val) # ""
    THEN /\ i' = i + 1
         /\ error_count' = error_count + 1
         /\ UNCHANGED <<pc, case_data>>
    ELSE /\ pc' = "call"
         /\ case_data' = loaded.val
         /\ UNCHANGED <<i, error_count>>

ReadLine ==
    /\ pc = "loop"
    /\ UsesRequests(variant)
    /\ IF LoopEnds
       THEN /\ pc' = "done"
            /\ UNCHANGED <<i, case_data, error_count>>
       ELSE LineRead(Strip(infile[i + 1]), JsonLoads(Strip(infile[i + 1])))
    /\ attempt' = 0
    /\ posts' = <<>>
    /\ backoffs' = <<>>
    /\ UNCHANGED << variant, rerun, infile, max_lines, lines, response, opened, outfile,
                    results, processed_count, delays >>
    /\ UNCHANGED extractVars

\* the loop body with the write put in front of the file instead of at its end
CaseDonePrepended(got, result) ==
    /\ response' = got
    /\ pc' = "loop"
    /\ i' = i + 1
    /\ IF result.exc = ""
       THEN /\ outfile' = <<Dumps(result.val) \o "\n">> \o outfile
            /\ processed_count' = processed_count + 1
            /\ delays' = Append(delays, i)
            /\ UNCHANGED error_count
       ELSE /\ error_count' = error_count + 1
            /\ UNCHANGED <<outfile, processed_count, delays>>

\* the rest of the loop body: the result of process_single_case is written, or
\* what it raised is counted
CaseDone(got, result) ==
    /\ response' = got
    /\ pc' = "loop"
    /\ i' = i + 1
    /\ IF result.exc = ""
       THEN /\ outfile' = Append(outfile, Dumps(result.val) \o "\n")
            /\ processed_count' = processed_count + 1
            /\ delays' = Append(delays, i)
            /\ UNCHANGED error_count
       ELSE /\ error_count' = error_count + 1
            /\ UNCHANGED <<outfile, processed_count, delays>>

\* generate_response has returned or raised
AfterCall(got) ==
    CaseDone(got, IF got.exc = "" THEN CaseResult(variant, case_data, i, got.val.v) ELSE got)

\* the retry test off by one: a request more than the budget
RetryOnceMore(kind, n) == kind = "RequestException" /\ n < max_retries

\* except requests.exceptions.RequestException: if attempt < max_retries - 1
RetryAgain(kind, n) == kind = "RequestException" /\ n < max_retries - 1

\* what generate_response gives when a round ends it: the text of a decoded body,
\* "" after the last RequestException and after a JSONDecodeError
RoundResult(v, kind, body) ==
    IF kind = "json" THEN EnvelopeText(Envelopes(v)[body]) ELSE Returned(PyStr(""))

\* one round of the retry loop: a RequestException is retried after a sleep until
\* the last attempt, a JSONDecodeError returns "" at once, a decoded body returns
\* its text; body is the number of the envelope received, 0 when none was
Attempt ==
    /\ pc = "call"
    /\ UsesRequests(variant)
    /\ \E kind \in PostKinds, body \in 0..Len(Envelopes(variant)) :
        /\ (kind = "json") = (body > 0)
        /\ posts' = Append(posts, [kind |-> kind, body |-> body])
        /\ IF RetryAgain(kind, attempt)
           THEN /\ attempt' = attempt + 1
                /\ backoffs' = Append(backoffs, Len(posts) + 1)
                /\ UNCHANGED << pc, i, response, outfile, processed_count, error_count,
                                delays >>
           ELSE /\ AfterCall(RoundResult(variant, kind, body))
                /\ UNCHANGED <<attempt, backoffs>>
    /\ UNCHANGED <<variant, rerun, infile, max_lines, lines, case_data, opened, results>>
    /\ UNCHANGED extractVars

(***************************************************************************)
(* EC_v5.py and QA_v3.py: the run                                          *)
(***************************************************************************)
\* "JSON解析错误: " and "处理错误: ", each followed by str(e)
JsonErrorAnswer == "JSON jiexi cuowu: e"

ProcessErrorAnswer == "chuli cuowu: e"

CallErrorAnswer == "Error: e"

\* the field the task's answer is stored in
AnswerField(v) == IF v = "EC" THEN "predicted_emotion" ELSE "predicted_answer"

\* lines[:max_examples] when max_examples is truthy
Capped(file, cap) ==
    IF Truthy(cap) THEN SubSeq(file, 1, IF cap.v < Len(file) THEN cap.v ELSE Len(file))
    ELSE file

\* example.get("choices", []) as a list of str (no input holds choices that is a
\* str or a dict)
ChoicesOf(example) ==
    LET choices == DictGet(example, "choices", PyList(<<>>))
    IN  IF choices.k = "list" THEN [n \in 1..Len(choices.v) |-> choices.v[n].v] ELSE <<>>

\* the exception raised on an example before the model is called, "" when none:
\* example.get on a value that is no dict, QA's example["id"] = i, EC's
\* ', '.join(choices), QA's problem.strip()
ExampleError(v, example) ==
    LET choices == DictGet(example, "choices", PyList(<<>>))
        problem == DictGet(example, "problem", PyStr(""))
    IN  CASE example.k # "dict" -> IF v = "EC" THEN "AttributeError" ELSE "TypeError"
          [] v = "EC" /\ choices.k \in {"int", "none", "bool", "float"} -> "TypeError"
          [] v = "EC" /\ choices.k = "list" /\ ~AllOf(choices.v, "str") -> "TypeError"
          [] v = "QA" /\ problem.k # "str" -> "AttributeError"
          [] OTHER -> ""

\* the entry appended to self.results for a line that raised in the loop
Sentinel(v, index, answer) ==
    IF v = "EC"
    THEN PyDict(<< <<"id", PyInt(index)>>, <<"predicted_emotion", PyStr(DefaultEmotion)>> >>)
    ELSE PyDict(<< <<"id", PyInt(index)>>, <<"predicted_answer", PyStr(answer)>>,
                   <<"is_yes_no_question", PyBool(FALSE)>>,
                   <<"original_response", PyStr("")>> >>)

\* the id of process_single_example's result: QA's loop has stored the index in
\* an example without id, EC reads example.get("id")
ExampleId(v, example, index) ==
    IF v = "EC" THEN DictGet(example, "id", PyNone) ELSE DictGet(example, "id", PyInt(index))

\* process_single_example from the model call on: got is the text generated, or
\* the exception ollama.generate raised
EmotionResult(id, choices, got) ==
    PyDict(<< <<"id", id>>,
              <<"predicted_emotion", IF got.exc = "" THEN extract_emotion(got.val.v, choices)
                                     ELSE PyStr(FirstChoice(choices))>> >>)

AnswerResult(id, is_yes_no, got) ==
    IF got.exc = ""
    THEN PyDict(<< <<"id", id>>,
                   <<"predicted_answer", PyStr(clean_response(Strip(got.val.v), is_yes_no))>>,
                   <<"is_yes_no_question", PyBool(is_yes_no)>>,
                   <<"original_response", PyStr(Strip(got.val.v))>> >>)
    ELSE PyDict(<< <<"id", id>>, <<"predicted_answer", PyStr(CallErrorAnswer)>>,
                   <<"is_yes_no_question", PyBool(FALSE)>>,
                   <<"original_response", PyStr("")>> >>)

ExampleResult(v, example, index, got) ==
    IF v = "EC"
    THEN EmotionResult(ExampleId(v, example, index), ChoicesOf(example), got)
    ELSE AnswerResult(ExampleId(v, example, index),
                      is_yes_no_question(DictGet(example, "problem", PyStr("")).v), got)

\* save_results writing the whole in-memory result
SavedLineWhole(v, result) == Dumps(result) \o "\n"

\* the line save_results writes for one entry of self.results
SavedLine(v, result) ==
    Dumps(PyDict(<< <<"id", DictGet(result, "id", PyNone)>>,
                    <<AnswerField(v), DictGet(result, AnswerField(v), PyNone)>> >>)) \o "\n"

\* print_summary: whether an entry of self.results counts as failed, EC by
\* not r.get("predicted_emotion"), QA by
\* r.get("predicted_answer", "").startswith("Error")
CountsAsFailed(v, r) ==
    IF v = "EC" THEN ~Truthy(DictGet(r, "predicted_emotion", PyNone))
    ELSE StartsAt(DictGet(r, "predicted_answer", PyStr("")).v, 1, "Error")

\* print_summary: successful and failed, counted over self.results
successful(v, rs) == Cardinality({n \in 1..Len(rs) : ~CountsAsFailed(v, rs[n])})

failed(v, rs) == Cardinality({n \in 1..Len(rs) : CountsAsFailed(v, rs[n])})

\* the input file is read whole and capped; QA returns when there is no such
\* file, EC lets open raise
StartOllama ==
    /\ pc = "start"
    /\ ~UsesRequests(variant)
    /\ \E exists \in BOOLEAN :
        IF exists
        THEN /\ pc' = "loop"
             /\ lines' = Capped(infile, max_lines)
        ELSE /\ pc' = IF variant = "QA" THEN "done" ELSE "raised"
             /\ UNCHANGED lines
    /\ UNCHANGED << variant, rerun, infile, max_lines, i, case_data, attempt, posts, backoffs,
                    response, opened, outfile, results, processed_count, error_count,
                    delays >>
    /\ UNCHANGED extractVars

\* one line of the list: a line that does not parse, or that raises before the
\* model is called, gets its sentinel entry at once
ExampleRead(loaded) ==
    IF ~loaded.ok
    THEN /\ results' = Append(results, Sentinel(variant, i, JsonErrorAnswer))
         /\ i' = i + 1
         /\ UNCHANGED <<pc, case_data>>
    ELSE IF ExampleError(variant, loaded.val) # ""
    THEN /\ results' = Append(results, Sentinel(variant, i, ProcessErrorAnswer))
         /\ i' = i + 1
         /\ UNCHANGED <<pc, case_data>>
    ELSE /\ pc' = "call"
         /\ case_data' = loaded.val
         /\ UNCHANGED <<i, results>>

ReadExample ==
    /\ pc = "loop"
    /\ ~UsesRequests(variant)
    /\ i < Len(lines)
    /\ ExampleRead(JsonLoads(Strip(lines[i + 1])))
    /\ UNCHANGED << variant, rerun, infile, max_lines, lines, attempt, posts, backoffs, response,
                    opened, outfile, processed_count, error_count, delays >>
    /\ UNCHANGED extractVars

\* what ollama.generate gives: answer number n, or an exception when n is 0
Generated(v, n) ==
    IF n = 0 THEN Raised("ResponseError") ELSE Returned(PyStr(Responses(v)[n]))

\* ollama.generate answers or raises; the result is appended and the delay is
\* slept unless this was the last line of the list
CallOllama ==
    /\ pc = "call"
    /\ ~UsesRequests(variant)
    /\ \E n \in 0..Len(Responses(variant)) :
        /\ response' = Generated(variant, n)
        /\ results' = Append(results,
                             ExampleResult(variant, case_data, i, Generated(variant, n)))
    /\ delays' = IF i < Len(lines) - 1 THEN Append(delays, i) ELSE delays
    /\ i' = i + 1
    /\ pc' = "loop"
    /\ UNCHANGED << variant, rerun, infile, max_lines, lines, case_data, attempt, posts, backoffs,
                    opened, outfile, processed_count, error_count >>
    /\ UNCHANGED extractVars

\* after the last line: save_results rewrites the output file from self.results
SaveResults ==
    /\ pc = "loop"
    /\ ~UsesRequests(variant)
    /\ i >= Len(lines)
    /\ opened' = TRUE
    /\ outfile' = [n \in 1..Len(results) |-> SavedLine(variant, results[n])]
    /\ pc' = "done"
    /\ UNCHANGED << variant, rerun, infile, max_lines, lines, i, case_data, attempt, posts,
                    backoffs, response, results, processed_count, error_count, delays >>
    /\ UNCHANGED extractVars

\* process_jsonl_file is called once more on the instance, with the arguments of
\* the first call: its locals start afresh, self.results is the list __init__
\* made and the first call filled, and the output file is still on disk
CalledAgain ==
    /\ pc = "done"
    /\ ~UsesRequests(variant)
    /\ ~rerun
    /\ rerun' = TRUE
    /\ pc' = "start"
    /\ lines' = <<>>
    /\ i' = 0
    /\ case_data' = PyNone
    /\ response' = NoCall
    /\ opened' = FALSE
    /\ delays' = <<>>
    /\ UNCHANGED << variant, infile, max_lines, attempt, posts, backoffs, outfile, results,
                    processed_count, error_count >>
    /\ UNCHANGED extractVars

Next ==
    \/ Start
    \/ ReadLine
    \/ Attempt
    \/ StartOllama
    \/ ReadExample
    \/ CallOllama
    \/ SaveResults

Spec == Init /\ [][Next]_vars

\* EC and QA with a second call of process_jsonl_file on the same instance
InitAgain == Init /\ ~UsesRequests(variant)

NextAgain ==
    \/ StartOllama
    \/ ReadExample
    \/ CallOllama
    \/ SaveResults
    \/ CalledAgain

SpecAgain == InitAgain /\ [][NextAgain]_vars

(***************************************************************************)
(* The extractors on their own: one call of an extractor on a raw text     *)
(***************************************************************************)
\* the longest raw text, in fragments
MaxFrags == 2

\* the pieces the raw texts are made of
Fragments(v) ==
    CASE v = "ED" ->
            { "{\"index\": 1}", "{\"index\": \"two\"}", "{\"index\": 1.5}", "{\"idx\": 0}",
              "~~~json\n", "\n~~~", "The inconsistent text is 7", "index = 0", "2", "[1]",
              " ", "none of them", "{\"index\": -1, \"note\": \"~~~json ~~~\"}" }
      [] v = "ES" ->
            { "{\"predicted_cause\": \"stress\"}", "{\"predicted_symptoms\": null}",
              "~~~json\n", "\n~~~", "Cause: stress\n", "\"predicted_symptoms\": \"\"",
              "treatment effect: 'good'", "5", "[]", " ", "nothing to report" }
      [] v = "EC" ->
            { "{\"Emotion\": \"Anger\"}", "{\"Emotion\": \"Joy\"}", "{\"Emotion\": null}",
              "{\"Emotion\": 3}", "{\"Emotion\": \"Delight\"}",
              "{\"Emotion\": \"Delight\", \"why\": {}}", "anger", "so PROUD", "let down",
              "no hope", "Delight", " ", "", "who knows" }
      [] OTHER ->
            { "Yes", "yes, clearly.", " No\n", "no", "It helps sleep.", " ", "YES" }

\* the concatenations of at most n fragments
RECURSIVE Concats(_, _)
Concats(v, n) ==
    IF n = 0 THEN {""}
    ELSE Concats(v, n - 1) \cup {a \o b : a \in Concats(v, n - 1), b \in Fragments(v)}

\* the choices lists of the records: none, one, and several choices
ChoiceLists ==
    { <<>>, <<"Anger">>, <<"Anger", "Delight">>, <<"Pride", "Hopeless">>,
      <<"Disappointment", "Embarrassment", "Joy">> }

\* the records the text answers: ED's candidate lists, ES's cases with and without id
Records(v) ==
    CASE v = "ED" ->
            { PyDict(<< <<"text", PyList(<< PyDict(<< <<"index", PyInt(0)>> >>) >>)>> >>),
              PyDict(<< <<"id", PyInt(7)>>,
                        <<"text", PyList(<< PyDict(<< <<"index", PyInt(0)>> >>),
                                            PyDict(<< <<"index", PyInt(1)>> >>),
                                            PyDict(<< <<"index", PyInt(2)>> >>) >>)>> >>) }
      [] v = "ES" ->
            { PyDict(<< <<"id", PyInt(7)>>, <<"case_description", PyList(<<PyStr("d")>>)>> >>),
              PyDict(<< <<"case_description", PyList(<<PyStr("d")>>)>> >>) }
      [] OTHER -> { PyNone }

InitExtract ==
    /\ variant \in {"ED", "ES", "EC"}
    /\ infile = <<>>
    /\ max_lines = PyNone
    /\ pc = "extract"
    /\ lines = <<>>
    /\ i = 0
    /\ case_data \in Records(variant)
    /\ attempt = 0
    /\ posts = <<>>
    /\ backoffs = <<>>
    /\ response = NoCall
    /\ opened = FALSE
    /\ outfile = <<>>
    /\ results = <<>>
    /\ processed_count = 0
    /\ error_count = 0
    /\ delays = <<>>
    /\ rerun = FALSE
    /\ fn = ""
    /\ arg_text \in Concats(variant, MaxFrags)
    /\ arg_choices \in IF variant = "EC" THEN ChoiceLists ELSE {<<>>}
    /\ ret = NoCall

\* process_single_case of ED from extract_index_from_response on, for the text
\* generate_response returned (stripped)
ExtractIndex ==
    /\ pc = "extract"
    /\ variant = "ED"
    /\ fn = ""
    /\ fn' = "extract_index_from_response"
    /\ ret' = CaseResult("ED", case_data, i, Strip(arg_text))
    /\ UNCHANGED runVars
    /\ UNCHANGED <<arg_text, arg_choices>>

\* process_single_case of ES from extract_json_from_response on
ExtractSummary ==
    /\ pc = "extract"
    /\ variant = "ES"
    /\ fn = ""
    /\ fn' = "extract_json_from_response"
    /\ ret' = CaseResult("ES", case_data, i, Strip(arg_text))
    /\ UNCHANGED runVars
    /\ UNCHANGED <<arg_text, arg_choices>>

\* extract_emotion(model_response, choices)
ExtractEmotion ==
    /\ pc = "extract"
    /\ variant = "EC"
    /\ fn = ""
    /\ fn' = "extract_emotion"
    /\ ret' = Returned(extract_emotion(arg_text, arg_choices))
    /\ UNCHANGED runVars
    /\ UNCHANGED <<arg_text, arg_choices>>

NextExtract ==
    \/ ExtractIndex
    \/ ExtractSummary
    \/ ExtractEmotion

SpecExtract == InitExtract /\ [][NextExtract]_vars

(***************************************************************************)
(* The claims                                                              *)
(***************************************************************************)
\* C1: a run without a record cap that has read its input to the end holds exactly
\* one output record per input line, whatever mix of well-formed, malformed and
\* blank lines the input is.
C1_OneRecordPerLine ==
    (pc = "done" /\ opened /\ max_lines.k = "none") => Len(outfile) = Len(infile)

\* C2 as stated: extract_emotion returns an element of choices for every response
\* text and every choice list.
C2_EmotionInAnyChoices ==
    fn = "extract_emotion" => InChoices(ret.val, arg_choices)

\* C2, amended: extract_emotion returns an element of choices for every response
\* text and every choice list that is not empty, whichever tier answers.
C2_EmotionInChoices ==
    (fn = "extract_emotion" /\ Len(arg_choices) > 0) => InChoices(ret.val, arg_choices)

\* C2, its case: the synonym tier answered with a choice that is neither the first
\* choice nor named in the response.
C2_SynonymTierAnswered ==
    /\ fn = "extract_emotion"
    /\ Len(arg_choices) > 1
    /\ InChoices(ret.val, arg_choices)
    /\ ret.val.v # arg_choices[1]
    /\ ~Contains(Lower(arg_text), Lower(ret.val.v))

\* C3: the predicted_index of a result is an integer, and it is -1 or an index of
\* the record's candidate list.
C3_IndexIsValid ==
    (fn = "extract_index_from_response" /\ ret.exc = "") =>
        LET predicted_index == DictGet(ret.val, "predicted_index", PyNone)
            candidates == DictGet(case_data, "text", PyList(<<>>)).v
        IN  /\ predicted_index.k = "int"
            /\ \/ predicted_index.v = -1
               \/ 0 <= predicted_index.v /\ predicted_index.v < Len(candidates)

\* C4: the summary result holds each of the five fields, none of them null, and a
\* field the response says nothing about (the response does not even hold the
\* word its pattern looks for) holds the "not extracted" marker.
C4_FieldsPresentOrMarked ==
    (fn = "extract_json_from_response" /\ ret.exc = "") =>
        \A n \in 1..Len(SummaryFields) :
            /\ HasKey(ret.val, SummaryFields[n])
            /\ DictGet(ret.val, SummaryFields[n], PyNone).k # "none"
            /\ ~Contains(Lower(arg_text), LooseKeys[n].head) =>
                    PyEq(DictGet(ret.val, SummaryFields[n], PyNone), PyStr(NotExtracted))

\* C5: extraction returns a result for every raw text and raises nothing, also for
\* a text that parses as a JSON value that is no object.
C5_ExtractionReturns ==
    fn \in {"extract_index_from_response", "extract_json_from_response"} => ret.exc = ""

\* C6: generate_response sends at most max_retries requests for a prompt; every
\* request but the last failed with a RequestException, so nothing is sent after
\* a request that succeeded; it has slept once after each request that another
\* one follows and at no other time; it returns the text of the body it received,
\* and "" after max_retries RequestExceptions.
C6_RetryBudget ==
    UsesRequests(variant) =>
        /\ Len(posts) <= max_retries
        /\ \A n \in 1..(Len(posts) - 1) : posts[n].kind = "RequestException"
        /\ backoffs = [n \in 1..(IF pc = "call" THEN Len(posts) ELSE Len(posts) - 1) |-> n]
        /\ (pc = "loop" /\ Len(posts) = max_retries
                /\ posts[max_retries].kind = "RequestException")
            => response = Returned(PyStr(""))
        /\ (pc = "loop" /\ Len(posts) > 0 /\ posts[Len(posts)].kind = "json"
                /\ response.exc = "")
            => response = EnvelopeText(Envelopes(variant)[posts[Len(posts)].body])

\* C6, its case: the third request succeeded after two failures and two sleeps,
\* and its text was returned.
C6_ThirdRequestAnswered ==
    /\ pc = "loop"
    /\ Len(posts) = max_retries
    /\ posts[max_retries].kind = "json"
    /\ Len(backoffs) = max_retries - 1
    /\ response.exc = ""
    /\ response.val.v # ""

\* C7: generate_response raises nothing to its caller, whatever the service sends.
C7_NeverRaises ==
    UsesRequests(variant) => response.exc \in {"", "none"}

\* C8: at the end of a run without a record cap, each line that did not parse as
\* JSON has a sentinel record in the output, with the line's zero-based index as id
\* and the task's default as answer, and each of them was counted as a failure.
C8_MalformedLineSentinel ==
    (pc = "done" /\ opened /\ max_lines.k = "none" /\ variant \in {"ED", "ES", "EC"}) =>
        LET malformed == {n \in 1..Len(infile) :
                            Strip(infile[n]) # "" /\ ~JsonLoads(Strip(infile[n])).ok}
            record(m) == JsonLoads(Strip(outfile[m])).val
            default(r) ==
                CASE variant = "ED" -> PyEq(DictGet(r, "predicted_index", PyNone), PyInt(-1))
                  [] variant = "ES" ->
                        \A f \in 1..Len(SummaryFields) :
                            PyEq(DictGet(r, SummaryFields[f], PyNone), PyStr(NotExtracted))
                  [] OTHER -> PyEq(DictGet(r, "predicted_emotion", PyNone),
                                   PyStr(DefaultEmotion))
        IN  /\ \A n \in malformed :
                    \E m \in 1..Len(outfile) :
                        /\ PyEq(DictGet(record(m), "id", PyNone), PyInt(n - 1))
                        /\ default(record(m))
            /\ error_count >= Cardinality(malformed)

\* C9: the record a model call leads to carries the id field of its input record
\* when the input record has one, and the zero-based index of its line when not.
C9_IdOrLineIndex ==
    [][(pc = "call" /\ pc' = "loop"
            /\ Len(outfile') + Len(results') > Len(outfile) + Len(results)) =>
        LET emitted == IF UsesRequests(variant)
                       THEN JsonLoads(Strip(outfile'[Len(outfile')])).val
                       ELSE results'[Len(results')]
        IN  PyEq(DictGet(emitted, "id", PyNone), DictGet(case_data, "id", PyInt(i)))]_vars

\* C10: at every point of a run the output file holds one record for every record
\* the run has produced so far.
C10_SinkHoldsProduced ==
    pc \in {"loop", "call"} =>
        Len(outfile) = IF UsesRequests(variant) THEN processed_count ELSE Len(results)

\* C11: output records are written in input order.  The loop index never goes
\* back; a record is only ever added at the end of what was written before, in
\* a step that moves on to the next line; save_results writes self.results in
\* its order; and the ids of ED's records, which are line indices, increase.
C11_InputOrder ==
    /\ [][/\ i' >= i
          /\ results' # results =>
                /\ results' = Append(results, results'[Len(results')])
                /\ i' = i + 1
          /\ (UsesRequests(variant) /\ outfile' # outfile) =>
                /\ outfile' = Append(outfile, outfile'[Len(outfile')])
                /\ i' = i + 1
          /\ (~UsesRequests(variant) /\ outfile' # outfile) =>
                outfile' = [n \in 1..Len(results) |-> SavedLine(variant, results[n])]]_vars
    /\ [](variant = "ED" =>
            \A m \in 1..Len(outfile) : \A n \in 1..Len(outfile) :
                m < n => DictGet(JsonLoads(Strip(outfile[m])).val, "id", PyNone).v
                            < DictGet(JsonLoads(Strip(outfile[n])).val, "id", PyNone).v)

\* C11, its case: a run that wrote two records, the first for a line that did not
\* parse and the second for a line whose model call raised.
C11_TwoRecordsWritten ==
    /\ pc = "done"
    /\ variant = "EC"
    /\ Len(outfile) = 2
    /\ ~JsonLoads(Strip(infile[1])).ok
    /\ response.exc = "ResponseError"

\* C12: when the connection check fails the run ends at once: the output file is
\* not opened (neither created nor truncated), nothing is written, no request is
\* sent, no line is read; and a run that has ended takes no further step.
C12_ProbeFailureAborts ==
    /\ [][(pc = "start" /\ UsesRequests(variant) /\ pc' = "done") =>
            /\ ~opened'
            /\ outfile' = <<>>
            /\ posts' = <<>>
            /\ response' = NoCall
            /\ processed_count' = 0
            /\ i' = 0]_vars
    /\ [](pc = "done" => ~ENABLED Next)

\* C12, its case: the check failed on a run whose input holds lines to process.
C12_ProbeFailed ==
    /\ UsesRequests(variant)
    /\ pc = "done"
    /\ ~opened
    /\ Len(infile) > 0
    /\ \E n \in 1..Len(infile) : JsonLoads(Strip(infile[n])).ok

\* C13: a failure on one record does not end the run.  A step taken inside the
\* loop stays in the loop or ends the run normally (nothing is raised out of it),
\* a step that is done with a line moves on to the next one, and a run that has
\* ended after opening its output has gone through every line within the cap.
C13_FailureDoesNotAbort ==
    /\ [][(pc = "call" /\ pc' = "loop") => i' = i + 1]_vars
    /\ [][(pc \in {"loop", "call"}) => (pc' \in {"loop", "call", "done"})]_vars
    /\ []((pc = "done" /\ opened) => i = Len(Capped(infile, max_lines)))

\* C13, its case: the first line raised while its prompt was built (it is a JSON
\* list), the second line was processed and written.
C13_SecondLineAfterFailure ==
    /\ variant = "ED"
    /\ pc = "done"
    /\ Len(infile) = 2
    /\ JsonLoads(Strip(infile[1])).val.k = "list"
    /\ error_count = 1
    /\ processed_count = 1

\* C14: for a question classified as yes/no, an answer that is yes or no, or whose
\* first token (the letters before the first blank or punctuation mark) is yes or
\* no in any letter case, is stored as exactly "yes" or "no".
C14_YesNoNormalized ==
    variant = "QA" =>
        \A n \in 1..Len(results) :
            LET raw == DictGet(results[n], "original_response", PyStr("")).v
                token == Lower(SubSeq(raw, 1,
                            FindChar(raw, 1, Whitespace \cup {",", ".", "!", ";", ":"}) - 1))
            IN  (PyEq(DictGet(results[n], "is_yes_no_question", PyNone), PyBool(TRUE))
                    /\ token \in {"yes", "no"})
                => DictGet(results[n], "predicted_answer", PyNone).v = token

\* C15: every line written to the output file is a JSON object whose keys are
\* exactly id and the result field(s) of the task, in every script and on every
\* path.  ED and ES add one line at a time at the end of the file, in the step
\* that ends a model call: each line is looked at in the state that step leads
\* to, where it is the last one.  EC and QA write the whole file in one step.
C15_OnlyIdAndResultFields ==
    LET fields == CASE variant = "ED" -> <<"id", "predicted_index">>
                    [] variant = "ES" -> <<"id">> \o SummaryFields
                    [] OTHER -> <<"id", AnswerField(variant)>>
        holds(written) ==
            /\ written.ok
            /\ written.val.k = "dict"
            /\ [f \in 1..Len(written.val.v) |-> written.val.v[f][1]] = fields
    IN  IF UsesRequests(variant)
        THEN (pc = "loop" /\ posts # <<>> /\ Len(outfile) > 0) =>
                holds(JsonLoads(Strip(outfile[Len(outfile)])))
        ELSE \A n \in 1..Len(outfile) : holds(JsonLoads(Strip(outfile[n])))

\* C15, its case: QA has saved two lines, the first for an answered question (its
\* in-memory result keeps the original response), the second for a call that
\* raised.
C15_AnswerAndFailureSaved ==
    /\ variant = "QA"
    /\ pc = "done"
    /\ Len(outfile) = 2
    /\ DictGet(results[1], "original_response", PyStr("")).v # ""
    /\ response.exc = "ResponseError"

\* C16: a request answered with a malformed envelope (a body that is not JSON, JSON
\* that is no object, a response field that is no string) while attempts remain is
\* followed by the backoff sleep and another request.
C16_MalformedEnvelopeRetried ==
    [][(/\ pc = "call"
        /\ UsesRequests(variant)
        /\ Len(posts') = Len(posts) + 1
        /\ attempt < max_retries - 1
        /\ LET post == posts'[Len(posts')]
           IN  \/ post.kind = "JSONDecodeError"
               \/ post.kind = "json" /\ EnvelopeText(Envelopes(variant)[post.body]).exc # "")
       => (pc' = "call" /\ backoffs' = Append(backoffs, Len(posts')))]_vars

\* C17: when the model call of a record ends unavailable (ED: the retries are
\* exhausted or generate_response raises; EC: ollama.generate raises, on a record
\* with choices), the record's output is emitted with the default, -1 for ED and
\* the first choice for EC, and the run moves on to the next line.
C17_UnavailableGivesDefault ==
    [][(pc = "call" /\ pc' = "loop") =>
        /\ (/\ variant = "ED"
            /\ \/ response'.exc # ""
               \/ Len(posts') = max_retries /\ posts'[max_retries].kind = "RequestException")
           => /\ Len(outfile') = Len(outfile) + 1
              /\ PyEq(DictGet(JsonLoads(Strip(outfile'[Len(outfile')])).val,
                              "predicted_index", PyNone), PyInt(-1))
              /\ i' = i + 1
        /\ (variant = "EC" /\ response'.exc # "" /\ Len(ChoicesOf(case_data)) > 0)
           => /\ Len(results') = Len(results) + 1
              /\ PyEq(DictGet(results'[Len(results')], "predicted_emotion", PyNone),
                      PyStr(ChoicesOf(case_data)[1]))
              /\ i' = i + 1]_vars

\* C18: the inter-call delay is slept after a record was processed and emitted,
\* unless that record was the last line of the input or the line the cap is
\* reached at: then no delay is slept.
C18_NoDelayAfterLast ==
    [][(pc = "call" /\ pc' = "loop") =>
        LET last == Len(Capped(infile, max_lines)) - 1
        IN  /\ i = last => delays' = delays
            /\ (i < last /\ Len(outfile') + Len(results') > Len(outfile) + Len(results))
                => delays' = Append(delays, i)]_vars

\* C19: a run with the cap N, for every integer N >= 0, that has ended has gone
\* through the first N lines and no further, and has written at most N records; a
\* run without cap has gone through every line.
C19_CapBoundsTheRun ==
    (pc = "done" /\ opened) =>
        IF max_lines.k = "int"
        THEN /\ i = (IF max_lines.v < Len(infile) THEN max_lines.v ELSE Len(infile))
             /\ Len(outfile) <= max_lines.v
        ELSE i = Len(infile)

\* C20 as stated: when the JSON tier does not answer, the label returned is the
\* earliest of the record's choices among those the tier matched, in the substring
\* tier and in the synonym tier alike.
C20_EarliestChoiceWins ==
    (fn = "extract_emotion"
        /\ ~InChoices(extract_emotion_from_json(arg_text), arg_choices)) =>
        LET low == Lower(arg_text)
            named == {c \in 1..Len(arg_choices) : Contains(low, Lower(arg_choices[c]))}
            hinted == {c \in 1..Len(arg_choices) :
                        \E e \in 1..Len(emotion_patterns) :
                            /\ emotion_patterns[e].emotion = arg_choices[c]
                            /\ \E n \in 1..Len(emotion_patterns[e].patterns) :
                                    Contains(low, emotion_patterns[e].patterns[n])}
        IN  /\ named # {} => ret.val.v = arg_choices[Min(named)]
            /\ (named = {} /\ hinted # {}) => ret.val.v = arg_choices[Min(hinted)]

\* C20, amended: in the substring tier the earliest of the record's choices named
\* in the response is returned; in the synonym tier the label returned is the
\* matching choice that comes first in the synonym table, whatever its place in
\* the record's choices.
C20_EarliestInTierOrderWins ==
    (fn = "extract_emotion"
        /\ ~InChoices(extract_emotion_from_json(arg_text), arg_choices)) =>
        LET low == Lower(arg_text)
            named == {c \in 1..Len(arg_choices) : Contains(low, Lower(arg_choices[c]))}
            rows == {e \in 1..Len(emotion_patterns) :
                        /\ \E c \in 1..Len(arg_choices) :
                                arg_choices[c] = emotion_patterns[e].emotion
                        /\ \E n \in 1..Len(emotion_patterns[e].patterns) :
                                Contains(low, emotion_patterns[e].patterns[n])}
        IN  /\ named # {} => ret.val.v = arg_choices[Min(named)]
            /\ (named = {} /\ rows # {}) => ret.val.v = emotion_patterns[Min(rows)].emotion

\* C20, its case: no choice is named in the response, synonyms of two choices are
\* found in it, and the one returned is not the first of the record's choices.
C20_LaterChoiceBySynonym ==
    /\ fn = "extract_emotion"
    /\ arg_choices = <<"Pride", "Hopeless">>
    /\ Contains(Lower(arg_text), "proud")
    /\ Contains(Lower(arg_text), "no hope")
    /\ ~Contains(Lower(arg_text), "pride")
    /\ ~Contains(Lower(arg_text), "hopeless")
    /\ ret.val.v = "Hopeless"


\* C21 as stated: a response that holds a JSON object whose Emotion value is one of
\* the choices yields the Emotion value of such an object, whatever else the text
\* names; failing that the substring tier answers before the synonym tier, and the
\* first choice is returned only when no tier matches.
C21_AnyJsonObjectWins ==
    (fn = "extract_emotion" /\ arg_choices # <<>>) =>
        LET low == Lower(arg_text)
            objects == {p \in 1..Len(arg_text) :
                            /\ Char(arg_text, p) = "{"
                            /\ ParseValue(arg_text, p).ok
                            /\ ParseValue(arg_text, p).val.k = "dict"
                            /\ InChoices(DictGet(ParseValue(arg_text, p).val, "Emotion", PyNone),
                                         arg_choices)}
            named == {c \in 1..Len(arg_choices) : Contains(low, Lower(arg_choices[c]))}
            rows == {e \in 1..Len(emotion_patterns) :
                        /\ \E c \in 1..Len(arg_choices) :
                                arg_choices[c] = emotion_patterns[e].emotion
                        /\ \E n \in 1..Len(emotion_patterns[e].patterns) :
                                Contains(low, emotion_patterns[e].patterns[n])}
        IN  /\ objects # {} =>
                    \E p \in objects :
                        PyEq(ret.val, DictGet(ParseValue(arg_text, p).val, "Emotion", PyNone))
            /\ (objects = {} /\ named # {}) => ret.val.v = arg_choices[Min(named)]
            /\ (objects = {} /\ named = {} /\ rows # {}) =>
                    ret.val.v = emotion_patterns[Min(rows)].emotion
            /\ (objects = {} /\ named = {} /\ rows = {}) => ret.val.v = arg_choices[1]


\* C22: the predicted index is the index of the fenced JSON block when that block
\* parses (-1 when it holds no index), else the index of the whole text when it
\* parses as JSON, else the number of the first pattern of the list that matches,
\* else the first bare number, else -1.
C22_IndexTiersInOrder ==
    (fn = "extract_index_from_response" /\ ret.exc = "") =>
        LET text == Strip(arg_text)
            predicted_index == DictGet(ret.val, "predicted_index", PyNone)
            block == FencedJson(text)
            blockOk == block.found /\ JsonLoads(block.group).ok
            wholeOk == ~blockOk /\ JsonLoads(text).ok
            ms == IndexPatternMatches(text)
            hits == {n \in 1..Len(ms) : ms[n].found}
            nums == BareNumbers(text)
            same(x, y) == x.k = y.k /\ x.v = y.v
        IN  /\ blockOk =>
                    same(predicted_index,
                         DictGet(JsonLoads(block.group).val, "index", PyInt(-1)))
            /\ wholeOk =>
                    same(predicted_index, DictGet(JsonLoads(text).val, "index", PyInt(-1)))
            /\ (~blockOk /\ ~wholeOk /\ hits # {}) =>
                    PyEq(predicted_index, PyInt(StrToNat(ms[Min(hits)].group)))
            /\ (~blockOk /\ ~wholeOk /\ hits = {} /\ nums # {}) =>
                    PyEq(predicted_index,
                         PyInt(StrToNat(SubSeq(text, Min(nums),
                                               SkipDigits(text, Min(nums)) - 1))))
            /\ (~blockOk /\ ~wholeOk /\ hits = {} /\ nums = {}) =>
                    PyEq(predicted_index, PyInt(-1))


\* C23: when the response is not empty and neither its fenced block nor, without
\* one, the whole text parses as JSON, each field of the summary holds what the
\* first pattern of its list that matches captured, blanks stripped: the quoted
\* field name before the loose keyword, whatever the other fields hold; a field
\* none of whose patterns matches holds the "not extracted" marker, as does one
\* whose match captured nothing.
C23_FieldsFromFirstPattern ==
    (fn = "extract_json_from_response" /\ ret.exc = ""
        /\ Strip(arg_text) # ""
        /\ ~JsonLoads(JsonText(Strip(arg_text), FencedJson(Strip(arg_text)))).ok) =>
        \A n \in 1..Len(SummaryFields) :
            LET text == Strip(arg_text)
                exact == QuotedField(text, SummaryFields[n])
                loose == LooseFieldIn(text, Lower(text), LooseKeys[n])
                held == DictGet(ret.val, SummaryFields[n], PyNone)
            IN  /\ (exact.found /\ Strip(exact.group) # "") =>
                        PyEq(held, PyStr(Strip(exact.group)))
                /\ (exact.found /\ Strip(exact.group) = "") =>
                        PyEq(held, PyStr(NotExtracted))
                /\ (~exact.found /\ loose.found /\ Strip(loose.group) # "") =>
                        PyEq(held, PyStr(Strip(loose.group)))
                /\ (~exact.found /\ loose.found /\ Strip(loose.group) = "") =>
                        PyEq(held, PyStr(NotExtracted))
                /\ (~exact.found /\ ~loose.found) => PyEq(held, PyStr(NotExtracted))

\* C23, its case: the text does not parse, both patterns of predicted_cause match
\* it with different captures, the field holds the capture of the quoted field
\* name, and a field nothing matches holds the marker.
C23_ExactBeforeLoose ==
    /\ fn = "extract_json_from_response"
    /\ ret.exc = ""
    /\ ~JsonLoads(JsonText(Strip(arg_text), FencedJson(Strip(arg_text)))).ok
    /\ QuotedField(Strip(arg_text), "predicted_cause").found
    /\ LooseFieldIn(Strip(arg_text), Lower(Strip(arg_text)), LooseKeys[1]).found
    /\ QuotedField(Strip(arg_text), "predicted_cause").group = "stress"
    /\ Strip(LooseFieldIn(Strip(arg_text), Lower(Strip(arg_text)), LooseKeys[1]).group)
            # "stress"
    /\ PyEq(DictGet(ret.val, "predicted_cause", PyNone), PyStr("stress"))
    /\ PyEq(DictGet(ret.val, "predicted_treatment_effect", PyNone), PyStr(NotExtracted))


\* C24: when a call of process_jsonl_file of EC or QA has saved its results, the
\* first or the second call on the instance, the output file holds one record for
\* each line of the list that call read, in the order of the lines, and nothing
\* else: no record of the call before it.
C24_OutputOfThisRunOnly ==
    (~UsesRequests(variant) /\ pc = "done" /\ opened) =>
        /\ Len(outfile) = Len(lines)
        /\ Len(results) >= Len(lines)
        /\ \A n \in 1..Len(lines) :
                n <= Len(outfile) =>
                    outfile[n] = SavedLine(variant, results[Len(results) - Len(lines) + n])


\* C25: when a run has ended, the success count and the failure count (ED, ES:
\* processed_count and error_count; EC, QA: successful and failed of
\* print_summary) add up to the number of lines the loop went through; and the
\* failure count grows by one with every line that gets no model call (it does not
\* parse, or raises before the call; a blank line of ED and ES is skipped and no
\* failure) and with every line whose model call failed (no body was decoded, or
\* the call raised), and with no other.
C25_CountersAgree ==
    /\ [](pc = "done" =>
            IF UsesRequests(variant)
            THEN opened => processed_count + error_count = i
            ELSE successful(variant, results) + failed(variant, results) = Len(lines))
    /\ [][(UsesRequests(variant) /\ i' = i + 1) =>
            (error_count' = error_count +
                (IF pc = "loop"
                 THEN (IF Strip(infile[i + 1]) = "" THEN 0 ELSE 1)
                 ELSE (IF response'.exc # "" \/ posts'[Len(posts')].kind # "json"
                       THEN 1 ELSE 0)))]_vars
    /\ [][(~UsesRequests(variant) /\ i' = i + 1) =>
            (failed(variant, results') = failed(variant, results) +
                (IF pc = "loop" \/ response'.exc # "" THEN 1 ELSE 0))]_vars

====
